---------------------------- MODULE Spec2Model ----------------------------
(***************************************************************************)
(* Model of cambai/stream.py (stream, capture, stream_async,               *)
(* capture_async) and cambai/async_client.py (AsyncCambAI's two async      *)
(* generator bridges).                                                     *)
(*                                                                         *)
(* One behaviour of the model is one call of one operation: Init picks     *)
(* the operation (op) and its inputs, the actions are the statements of    *)
(* that operation's body, taken one at a time, together with what the      *)
(* caller (the consumer of a generator, the task's canceller) and the      *)
(* child process may do in between.                                        *)
(***************************************************************************)
EXTENDS Integers, Sequences, FiniteSets, TLC

\* ------------------------------------------------------------- bounds
\* longest caller-supplied chunk sequence (sinks)
MaxChunks == 2
\* longest item sequence of the vendor's synchronous generator (bridges)
MaxItems == 2
\* most full frames the capture child writes before its output ends
MaxFullFrames == 2

\* ---------------------------------------------------------- constants
\* process.stdout.read(16384) in capture
FrameSize == 16384
\* process.stdout.readexactly(16384) in capture_async
FrameSizeAsync == 16384

\* ------------------------------------------------------------- values
Ops == {"stream", "stream_async", "capture", "capture_async", "tts", "stt"}
SinkOps == {"stream", "stream_async"}
SourceOps == {"capture", "capture_async"}
BridgeOps == {"tts", "stt"}

\* A chunk of the caller's audio_stream: None, or bytes (b"" included).
None == [isNone |-> TRUE, data |-> <<>>]
Bytes(b) == [isNone |-> FALSE, data |-> b]
ChunkData == {<<>>, <<0>>, <<1>>, <<0, 1>>}
Chunks == {None} \cup {Bytes(b) : b \in ChunkData}

\* Sequences over S of length at most n.
SeqUpTo(S, n) == UNION {[1..k -> S] : k \in 0..n}

\* Items the vendor's generators yield (audio bytes, result dicts): opaque.
Items == {"a", "b"}

\* Exceptions the caller can observe ("none": no exception).
NoErr == "none"

VARIABLES
    op,           \* the operation this behaviour is a call of
    pc,           \* the position of the call in its body
    err,          \* the exception in flight, or raised to the caller
    available,    \* shutil.which(<tool>) is not None
    child,        \* the child process: "none", "running", "exited"
    closed,       \* the parent's end of the pipe has been closed
    waitStarted,  \* process.wait() has been called
    waited,       \* process.wait() has returned
    log,          \* lifecycle events of the call, in order
    primary,      \* the exception raised in the data-transfer loop, if any
    teardown,     \* the exception raised in the finally block, if any
    audio_stream, \* the caller's input sequence (sinks, stt)
    idx,          \* how many elements of audio_stream have been consumed
    chunk,        \* the loop variable
    audio,        \* the accumulation of stream / stream_async
    written,      \* the bytes handed to process.stdin.write, in order
    result,       \* the value returned by stream / stream_async
    N,            \* bytes the capture child writes to its stdout in all
    pos,          \* bytes of them read so far
    frames,       \* the frames yielded to the consumer, in order
    sync_gen,     \* the items the vendor's generator yields
    sync_err,     \* what the vendor's generator raises after them
    taken,        \* how many items have been taken from sync_gen
    delivered,    \* the items yielded to the async consumer, in order
    sleeps,       \* completed asyncio.sleep(0) suspensions
    audio_chunks, \* the list speech_to_text_stream collects
    invoked,      \* what camb_ai.speech_to_text_stream was called with
    first,        \* what the blocking variant did, kept for the comparison
    tasks,        \* concurrent stream_async calls: each one's local state
    procs         \* the children they spawned, in order of creation

procVars == <<child, closed, waitStarted, waited, log>>
excVars == <<primary, teardown>>
sinkVars == <<audio_stream, idx, chunk, audio, written, result>>
sourceVars == <<N, pos, frames>>
bridgeVars == <<sync_gen, sync_err, taken, delivered, sleeps, audio_chunks, invoked>>
otherVars == <<first, tasks, procs>>
callVars == <<op, pc, err, available, procVars, excVars, sinkVars, sourceVars, bridgeVars>>
vars == <<callVars, otherVars>>

\* ---------------------------------------------------------- pure helpers
\* the length of what read(a) returns with b bytes left before end of file
Min(a, b) == IF a < b THEN a ELSE b

\* ------------------------------------------------------------- Init
NotInvoked == [called |-> FALSE, arg |-> <<>>]

\* no run of the blocking variant has been recorded
NoObs == [set |-> FALSE, written |-> <<>>, result |-> None, frames |-> <<>>, log |-> <<>>]

Init ==
    /\ op \in Ops
    /\ pc = "call"
    /\ err = NoErr
    /\ available \in IF op \in BridgeOps THEN {TRUE} ELSE BOOLEAN
    /\ child = "none"
    /\ closed = FALSE
    /\ waitStarted = FALSE
    /\ waited = FALSE
    /\ log = <<>>
    /\ primary = NoErr
    /\ teardown = NoErr
    /\ audio_stream \in IF op \in SinkOps THEN SeqUpTo(Chunks, MaxChunks)
                        ELSE IF op = "stt" THEN SeqUpTo({Bytes(<<0>>), Bytes(<<1>>)}, MaxChunks)
                        ELSE {<<>>}
    /\ idx = 0
    /\ chunk = None
    /\ audio = <<>>
    /\ written = <<>>
    /\ result = None
    /\ N \in IF op \in SourceOps
             THEN {q * FrameSize + r : q \in 0..MaxFullFrames, r \in {0, 1, FrameSize - 1}}
             ELSE {0}
    /\ pos = 0
    /\ frames = <<>>
    /\ sync_gen \in IF op \in BridgeOps THEN SeqUpTo(Items, MaxItems) ELSE {<<>>}
    /\ sync_err \in IF op \in BridgeOps THEN {NoErr, "ApiException"} ELSE {NoErr}
    /\ taken = 0
    /\ delivered = <<>>
    /\ sleeps = 0
    /\ audio_chunks = <<>>
    /\ invoked = NotInvoked
    /\ first = NoObs
    /\ tasks = <<>>
    /\ procs = <<>>

\* --------------------------------------------------------- the child
\* The child process exits (on end of its input, on a broken pipe, or on
\* its own): the parent observes it in process.wait().
ChildExit ==
    /\ child = "running"
    /\ child' = "exited"
    /\ UNCHANGED <<op, pc, err, available, closed, waitStarted, waited, log,
                   sinkVars, sourceVars, bridgeVars>>
    /\ UNCHANGED excVars
    /\ UNCHANGED otherVars

\* ------------------------------------------------------- stream (blocking)
\* StreamWhich without the test of shutil.which: the process is spawned
\* whether or not the tool was found.
StreamWhichUnchecked ==
    /\ op = "stream" /\ pc = "call"
    /\ pc' = "popen" /\ err' = err
    /\ UNCHANGED <<op, available, procVars, sinkVars, sourceVars, bridgeVars>>
    /\ UNCHANGED excVars
    /\ UNCHANGED otherVars

\* if shutil.which("gst-play-1.0") is None: raise ValueError(message)
StreamWhich ==
    /\ op = "stream" /\ pc = "call"
    /\ IF available
       THEN pc' = "popen" /\ err' = err
       ELSE pc' = "raised" /\ err' = "ValueError"
    /\ UNCHANGED <<op, available, procVars, sinkVars, sourceVars, bridgeVars>>
    /\ UNCHANGED excVars
    /\ UNCHANGED otherVars

\* gst_play_process = subprocess.Popen(...); audio = b""
StreamPopen ==
    /\ op = "stream" /\ pc = "popen"
    /\ child' = "running"
    /\ log' = Append(log, "spawn")
    /\ audio' = <<>>
    /\ pc' = "for"
    /\ UNCHANGED <<op, err, available, closed, waitStarted, waited,
                   audio_stream, idx, chunk, written, result, sourceVars, bridgeVars>>
    /\ UNCHANGED excVars
    /\ UNCHANGED otherVars

\* for chunk in audio_stream: if chunk is not None: ...
\* next(audio_stream) yields the next chunk, is exhausted, or raises; an
\* exception leaves stream() at once (the loop is in no try block).
StreamFor ==
    /\ op = "stream" /\ pc = "for"
    /\ \/ /\ idx < Len(audio_stream)
          /\ idx' = idx + 1
          /\ chunk' = audio_stream[idx + 1]
          /\ pc' = IF audio_stream[idx + 1].isNone THEN "for" ELSE "write"
          /\ err' = err
       \/ /\ idx = Len(audio_stream)
          /\ pc' = "close"
          /\ UNCHANGED <<idx, chunk, err>>
       \/ /\ pc' = "raised"
          /\ err' = "IterError"
          /\ UNCHANGED <<idx, chunk>>
    /\ UNCHANGED <<op, available, procVars, audio_stream, audio, written, result,
                   sourceVars, bridgeVars>>
    /\ primary' = err'
    /\ teardown' = teardown
    /\ UNCHANGED otherVars

\* StreamWrite followed by no flush: the chunk is appended right after the
\* write.
StreamWriteNoFlush ==
    /\ op = "stream" /\ pc = "write"
    /\ \/ /\ written' = written \o chunk.data
          /\ log' = Append(log, "write")
          /\ pc' = "append"
          /\ err' = err
       \/ /\ pc' = "raised"
          /\ err' = "BrokenPipeError"
          /\ UNCHANGED <<written, log>>
    /\ UNCHANGED <<op, available, child, closed, waitStarted, waited,
                   audio_stream, idx, chunk, audio, result, sourceVars, bridgeVars>>
    /\ primary' = err'
    /\ teardown' = teardown
    /\ UNCHANGED otherVars

\* gst_play_process.stdin.write(chunk)
StreamWrite ==
    /\ op = "stream" /\ pc = "write"
    /\ \/ /\ written' = written \o chunk.data
          /\ log' = Append(log, "write")
          /\ pc' = "flush"
          /\ err' = err
       \/ /\ pc' = "raised"
          /\ err' = "BrokenPipeError"
          /\ UNCHANGED <<written, log>>
    /\ UNCHANGED <<op, available, child, closed, waitStarted, waited,
                   audio_stream, idx, chunk, audio, result, sourceVars, bridgeVars>>
    /\ primary' = err'
    /\ teardown' = teardown
    /\ UNCHANGED otherVars

\* gst_play_process.stdin.flush()
StreamFlush ==
    /\ op = "stream" /\ pc = "flush"
    /\ \/ /\ log' = Append(log, "flush")
          /\ pc' = "append"
          /\ err' = err
       \/ /\ pc' = "raised"
          /\ err' = "BrokenPipeError"
          /\ log' = log
    /\ UNCHANGED <<op, available, child, closed, waitStarted, waited,
                   sinkVars, sourceVars, bridgeVars>>
    /\ primary' = err'
    /\ teardown' = teardown
    /\ UNCHANGED otherVars

\* StreamAppend with the operands swapped: audio = chunk + audio
StreamAppendSwapped ==
    /\ op = "stream" /\ pc = "append"
    /\ audio' = chunk.data \o audio
    /\ pc' = "for"
    /\ UNCHANGED <<op, err, available, procVars, audio_stream, idx, chunk, written,
                   result, sourceVars, bridgeVars>>
    /\ UNCHANGED excVars
    /\ UNCHANGED otherVars

\* audio += chunk
StreamAppend ==
    /\ op = "stream" /\ pc = "append"
    /\ audio' = audio \o chunk.data
    /\ pc' = "for"
    /\ UNCHANGED <<op, err, available, procVars, audio_stream, idx, chunk, written,
                   result, sourceVars, bridgeVars>>
    /\ UNCHANGED excVars
    /\ UNCHANGED otherVars

\* if gst_play_process.stdin: gst_play_process.stdin.close()
StreamClose ==
    /\ op = "stream" /\ pc = "close"
    /\ closed' = TRUE
    /\ log' = Append(log, "close")
    /\ pc' = "wait"
    /\ UNCHANGED <<op, err, available, child, waitStarted, waited,
                   sinkVars, sourceVars, bridgeVars>>
    /\ UNCHANGED excVars
    /\ UNCHANGED otherVars

\* gst_play_process.wait(): blocks until the child has exited
StreamWait ==
    /\ op = "stream" /\ pc \in {"wait", "waiting"}
    /\ IF pc = "wait"
       THEN /\ waitStarted' = TRUE
            /\ log' = Append(log, "wait")
            /\ pc' = "waiting"
            /\ waited' = waited
       ELSE /\ child = "exited"
            /\ waited' = TRUE
            /\ pc' = "return"
            /\ UNCHANGED <<waitStarted, log>>
    /\ UNCHANGED <<op, err, available, child, closed, sinkVars, sourceVars, bridgeVars>>
    /\ UNCHANGED excVars
    /\ UNCHANGED otherVars

\* return audio
StreamReturn ==
    /\ op = "stream" /\ pc = "return"
    /\ result' = Bytes(audio)
    /\ pc' = "done"
    /\ UNCHANGED <<op, err, available, procVars, audio_stream, idx, chunk, audio,
                   written, sourceVars, bridgeVars>>
    /\ UNCHANGED excVars
    /\ UNCHANGED otherVars

stream ==
    \/ StreamWhich \/ StreamPopen \/ StreamFor \/ StreamWrite \/ StreamFlush
    \/ StreamAppend \/ StreamClose \/ StreamWait \/ StreamReturn

\* ------------------------------------------------ stream_async (cooperative)
\* if shutil.which("gst-play-1.0") is None: raise ValueError(message)
StreamAsyncWhich ==
    /\ op = "stream_async" /\ pc = "call"
    /\ IF available
       THEN pc' = "spawn" /\ err' = err
       ELSE pc' = "raised" /\ err' = "ValueError"
    /\ UNCHANGED <<op, available, procVars, sinkVars, sourceVars, bridgeVars>>
    /\ UNCHANGED excVars
    /\ UNCHANGED otherVars

\* process = await asyncio.create_subprocess_exec(...); audio = b""
StreamAsyncSpawn ==
    /\ op = "stream_async" /\ pc = "spawn"
    /\ child' = "running"
    /\ log' = Append(log, "spawn")
    /\ audio' = <<>>
    /\ pc' = "anext"
    /\ UNCHANGED <<op, err, available, closed, waitStarted, waited,
                   audio_stream, idx, chunk, written, result, sourceVars, bridgeVars>>
    /\ UNCHANGED excVars
    /\ UNCHANGED otherVars

\* StreamAsyncFor with the loop outside the try block, as in stream(): an
\* exception of the iterator leaves the coroutine at once.
StreamAsyncForNoTry ==
    /\ op = "stream_async" /\ pc = "anext"
    /\ \/ /\ idx < Len(audio_stream)
          /\ idx' = idx + 1
          /\ chunk' = audio_stream[idx + 1]
          /\ pc' = IF audio_stream[idx + 1].isNone THEN "anext" ELSE "write"
          /\ err' = err
       \/ /\ idx = Len(audio_stream)
          /\ pc' = "fin_close"
          /\ UNCHANGED <<idx, chunk, err>>
       \/ /\ pc' = "raised"
          /\ err' = "IterError"
          /\ UNCHANGED <<idx, chunk>>
    /\ UNCHANGED <<op, available, procVars, audio_stream, audio, written, result,
                   sourceVars, bridgeVars>>
    /\ primary' = err'
    /\ teardown' = teardown
    /\ UNCHANGED otherVars

\* try: async for chunk in audio_stream: if chunk is not None: ...
\* An exception of the iterator is caught by the try: the finally block runs.
StreamAsyncFor ==
    /\ op = "stream_async" /\ pc = "anext"
    /\ \/ /\ idx < Len(audio_stream)
          /\ idx' = idx + 1
          /\ chunk' = audio_stream[idx + 1]
          /\ pc' = IF audio_stream[idx + 1].isNone THEN "anext" ELSE "write"
          /\ err' = err
       \/ /\ idx = Len(audio_stream)
          /\ pc' = "fin_close"
          /\ UNCHANGED <<idx, chunk, err>>
       \/ /\ pc' = "fin_close"
          /\ err' = "IterError"
          /\ UNCHANGED <<idx, chunk>>
    /\ UNCHANGED <<op, available, procVars, audio_stream, audio, written, result,
                   sourceVars, bridgeVars>>
    /\ primary' = err'
    /\ teardown' = teardown
    /\ UNCHANGED otherVars

\* StreamAsyncWrite followed by no drain: the loop goes on to the append
\* and the next chunk without awaiting the pipe.
StreamAsyncWriteNoDrain ==
    /\ op = "stream_async" /\ pc = "write"
    /\ \/ /\ written' = written \o chunk.data
          /\ log' = Append(log, "write")
          /\ pc' = "append"
          /\ err' = err
       \/ /\ pc' = "fin_close"
          /\ err' = "WriteError"
          /\ UNCHANGED <<written, log>>
    /\ UNCHANGED <<op, available, child, closed, waitStarted, waited,
                   audio_stream, idx, chunk, audio, result, sourceVars, bridgeVars>>
    /\ primary' = err'
    /\ teardown' = teardown
    /\ UNCHANGED otherVars

\* process.stdin.write(chunk)
StreamAsyncWrite ==
    /\ op = "stream_async" /\ pc = "write"
    /\ \/ /\ written' = written \o chunk.data
          /\ log' = Append(log, "write")
          /\ pc' = "drain"
          /\ err' = err
       \/ /\ pc' = "fin_close"
          /\ err' = "WriteError"
          /\ UNCHANGED <<written, log>>
    /\ UNCHANGED <<op, available, child, closed, waitStarted, waited,
                   audio_stream, idx, chunk, audio, result, sourceVars, bridgeVars>>
    /\ primary' = err'
    /\ teardown' = teardown
    /\ UNCHANGED otherVars

\* await process.stdin.drain()
StreamAsyncDrain ==
    /\ op = "stream_async" /\ pc = "drain"
    /\ \/ /\ log' = Append(log, "drain")
          /\ pc' = "append"
          /\ err' = err
       \/ /\ pc' = "fin_close"
          /\ err' = "ConnectionResetError"
          /\ log' = log
    /\ UNCHANGED <<op, available, child, closed, waitStarted, waited,
                   sinkVars, sourceVars, bridgeVars>>
    /\ primary' = err'
    /\ teardown' = teardown
    /\ UNCHANGED otherVars

\* StreamAsyncAppend with the operands swapped: audio = chunk + audio
StreamAsyncAppendSwapped ==
    /\ op = "stream_async" /\ pc = "append"
    /\ audio' = chunk.data \o audio
    /\ pc' = "anext"
    /\ UNCHANGED <<op, err, available, procVars, audio_stream, idx, chunk, written,
                   result, sourceVars, bridgeVars>>
    /\ UNCHANGED excVars
    /\ UNCHANGED otherVars

\* audio += chunk
StreamAsyncAppend ==
    /\ op = "stream_async" /\ pc = "append"
    /\ audio' = audio \o chunk.data
    /\ pc' = "anext"
    /\ UNCHANGED <<op, err, available, procVars, audio_stream, idx, chunk, written,
                   result, sourceVars, bridgeVars>>
    /\ UNCHANGED excVars
    /\ UNCHANGED otherVars

\* finally: if process.stdin: process.stdin.close()
StreamAsyncClose ==
    /\ op = "stream_async" /\ pc = "fin_close"
    /\ closed' = TRUE
    /\ log' = Append(log, "close")
    /\ pc' = "fin_wait"
    /\ UNCHANGED <<op, err, available, child, waitStarted, waited,
                   sinkVars, sourceVars, bridgeVars>>
    /\ UNCHANGED excVars
    /\ UNCHANGED otherVars

\* finally: await process.wait(); then the exception in flight, if any, is
\* raised again
StreamAsyncWait ==
    /\ op = "stream_async" /\ pc \in {"fin_wait", "waiting"}
    /\ IF pc = "fin_wait"
       THEN /\ waitStarted' = TRUE
            /\ log' = Append(log, "wait")
            /\ pc' = "waiting"
            /\ waited' = waited
       ELSE /\ child = "exited"
            /\ waited' = TRUE
            /\ pc' = IF err = NoErr THEN "return" ELSE "raised"
            /\ UNCHANGED <<waitStarted, log>>
    /\ UNCHANGED <<op, err, available, child, closed, sinkVars, sourceVars, bridgeVars>>
    /\ UNCHANGED excVars
    /\ UNCHANGED otherVars

\* return audio
StreamAsyncReturn ==
    /\ op = "stream_async" /\ pc = "return"
    /\ result' = Bytes(audio)
    /\ pc' = "done"
    /\ UNCHANGED <<op, err, available, procVars, audio_stream, idx, chunk, audio,
                   written, sourceVars, bridgeVars>>
    /\ UNCHANGED excVars
    /\ UNCHANGED otherVars

\* The task is cancelled while suspended in one of its awaits: CancelledError
\* is raised there. Inside the try it is handled by the finally block; in
\* the finally block's own await it leaves the coroutine.
StreamAsyncCancel ==
    /\ op = "stream_async" /\ pc \in {"spawn", "anext", "drain", "waiting"}
    /\ err' = "CancelledError"
    /\ pc' = IF pc \in {"anext", "drain"} THEN "fin_close" ELSE "raised"
    /\ primary' = IF pc \in {"anext", "drain"} THEN "CancelledError" ELSE primary
    /\ teardown' = IF pc = "waiting" THEN "CancelledError" ELSE teardown
    /\ UNCHANGED <<op, available, procVars, sinkVars, sourceVars, bridgeVars>>
    /\ UNCHANGED otherVars

stream_async ==
    \/ StreamAsyncWhich \/ StreamAsyncSpawn \/ StreamAsyncFor \/ StreamAsyncWrite
    \/ StreamAsyncDrain \/ StreamAsyncAppend \/ StreamAsyncClose \/ StreamAsyncWait
    \/ StreamAsyncReturn \/ StreamAsyncCancel

\* ------------------------------------------------------ capture (blocking)
\* A frame read from the child's stdout: the len bytes of its output that
\* start at offset lo.
Frame(lo, len) == [lo |-> lo, len |-> len]

\* if shutil.which("gst-launch-1.0") is None: raise ValueError(message)
\* (the body of the generator starts at the consumer's first next())
CaptureWhich ==
    /\ op = "capture" /\ pc = "call"
    /\ IF available
       THEN pc' = "popen" /\ err' = err
       ELSE pc' = "raised" /\ err' = "ValueError"
    /\ UNCHANGED <<op, available, procVars, sinkVars, sourceVars, bridgeVars>>
    /\ UNCHANGED excVars
    /\ UNCHANGED otherVars

\* process = subprocess.Popen(...)
CapturePopen ==
    /\ op = "capture" /\ pc = "popen"
    /\ child' = "running"
    /\ log' = Append(log, "spawn")
    /\ pc' = "read"
    /\ UNCHANGED <<op, err, available, closed, waitStarted, waited,
                   sinkVars, sourceVars, bridgeVars>>
    /\ UNCHANGED excVars
    /\ UNCHANGED otherVars

\* chunk = process.stdout.read(16384); if not chunk: break; yield chunk
\* The buffered read returns 16384 bytes, or fewer only at end of file (the
\* child has closed its stdout after the N bytes of its output, which it can
\* do before it exits); it may also raise.
CaptureRead ==
    /\ op = "capture" /\ pc = "read"
    /\ \/ /\ LET n == Min(FrameSize, N - pos) IN
             /\ pos' = pos + n
             /\ log' = Append(log, "read")
             /\ IF n = 0
                THEN pc' = "fin_close" /\ frames' = frames
                ELSE pc' = "yield" /\ frames' = Append(frames, Frame(pos, n))
          /\ err' = err
       \/ /\ pc' = "fin_close"
          /\ err' = "OSError"
          /\ UNCHANGED <<pos, frames, log>>
    /\ UNCHANGED <<op, available, child, closed, waitStarted, waited, N,
                   sinkVars, bridgeVars>>
    /\ primary' = err'
    /\ teardown' = teardown
    /\ UNCHANGED otherVars

\* The consumer, with the generator suspended at its yield: next(), close()
\* (GeneratorExit is raised at the yield), throw(), or nothing more while it
\* keeps the generator object.
CaptureConsumer ==
    /\ op = "capture" /\ pc = "yield"
    /\ \/ pc' = "read" /\ err' = err
       \/ pc' = "fin_close" /\ err' = "GeneratorExit"
       \/ pc' = "fin_close" /\ err' = "ConsumerError"
       \/ pc' = "abandoned" /\ err' = err
    /\ UNCHANGED <<op, available, procVars, sinkVars, sourceVars, bridgeVars>>
    /\ primary' = err'
    /\ teardown' = teardown
    /\ UNCHANGED otherVars

\* The abandoned generator object is finalized, if the runtime ever does so:
\* its close() raises GeneratorExit at the yield.
CaptureFinalize ==
    /\ op = "capture" /\ pc = "abandoned"
    /\ pc' = "fin_close"
    /\ err' = "GeneratorExit"
    /\ UNCHANGED <<op, available, procVars, sinkVars, sourceVars, bridgeVars>>
    /\ primary' = err'
    /\ teardown' = teardown
    /\ UNCHANGED otherVars

\* finally: process.stdout.close()
CaptureClose ==
    /\ op = "capture" /\ pc = "fin_close"
    /\ closed' = TRUE
    /\ log' = Append(log, "close")
    /\ pc' = "fin_wait"
    /\ UNCHANGED <<op, err, available, child, waitStarted, waited,
                   sinkVars, sourceVars, bridgeVars>>
    /\ UNCHANGED excVars
    /\ UNCHANGED otherVars

\* finally: process.wait(); then the generator ends: StopIteration, the
\* exception in flight, or (GeneratorExit) a normal return of close()
CaptureWait ==
    /\ op = "capture" /\ pc \in {"fin_wait", "waiting"}
    /\ IF pc = "fin_wait"
       THEN /\ waitStarted' = TRUE
            /\ log' = Append(log, "wait")
            /\ pc' = "waiting"
            /\ UNCHANGED <<waited, err>>
       ELSE /\ child = "exited"
            /\ waited' = TRUE
            /\ pc' = IF err = NoErr THEN "done"
                     ELSE IF err = "GeneratorExit" THEN "closed" ELSE "raised"
            /\ err' = IF err = "GeneratorExit" THEN NoErr ELSE err
            /\ UNCHANGED <<waitStarted, log>>
    /\ UNCHANGED <<op, available, child, closed, sinkVars, sourceVars, bridgeVars>>
    /\ UNCHANGED excVars
    /\ UNCHANGED otherVars

capture ==
    \/ CaptureWhich \/ CapturePopen \/ CaptureRead \/ CaptureConsumer
    \/ CaptureFinalize \/ CaptureClose \/ CaptureWait

\* ----------------------------------------------- capture_async (cooperative)
\* process.stdout of an asyncio subprocess is an asyncio.StreamReader, whose
\* methods are read, readline, readexactly, readuntil, at_eof, exception,
\* feed_data, feed_eof, set_exception and set_transport: it has no close(),
\* so the statement process.stdout.close() raises AttributeError.
StreamReaderHasClose == FALSE

\* if shutil.which("gst-launch-1.0") is None: raise ValueError(message)
CaptureAsyncWhich ==
    /\ op = "capture_async" /\ pc = "call"
    /\ IF available
       THEN pc' = "spawn" /\ err' = err
       ELSE pc' = "raised" /\ err' = "ValueError"
    /\ UNCHANGED <<op, available, procVars, sinkVars, sourceVars, bridgeVars>>
    /\ UNCHANGED excVars
    /\ UNCHANGED otherVars

\* process = await asyncio.create_subprocess_exec(...)
CaptureAsyncSpawn ==
    /\ op = "capture_async" /\ pc = "spawn"
    /\ child' = "running"
    /\ log' = Append(log, "spawn")
    /\ pc' = "read"
    /\ UNCHANGED <<op, err, available, closed, waitStarted, waited,
                   sinkVars, sourceVars, bridgeVars>>
    /\ UNCHANGED excVars
    /\ UNCHANGED otherVars

\* chunk = await process.stdout.readexactly(16384); if not chunk: break;
\* yield chunk / except asyncio.IncompleteReadError as e: if e.partial:
\* yield e.partial
\* readexactly returns exactly 16384 bytes, or at end of file raises
\* IncompleteReadError carrying the bytes read before it (the child has
\* closed its stdout, which it can do before it exits); it may also raise
\* something else.
CaptureAsyncRead ==
    /\ op = "capture_async" /\ pc = "read"
    /\ \/ /\ N - pos >= FrameSizeAsync
          /\ pos' = pos + FrameSizeAsync
          /\ log' = Append(log, "read")
          /\ IF FrameSizeAsync = 0
             THEN pc' = "fin" /\ frames' = frames
             ELSE pc' = "yield" /\ frames' = Append(frames, Frame(pos, FrameSizeAsync))
          /\ err' = err
       \/ /\ N - pos < FrameSizeAsync
          /\ LET partial == N - pos IN
             /\ pos' = N
             /\ log' = Append(log, "read")
             /\ IF partial # 0
                THEN pc' = "yield_partial" /\ frames' = Append(frames, Frame(pos, partial))
                ELSE pc' = "fin" /\ frames' = frames
          /\ err' = err
       \/ /\ pc' = "fin"
          /\ err' = "OSError"
          /\ UNCHANGED <<pos, frames, log>>
    /\ UNCHANGED <<op, available, child, closed, waitStarted, waited, N,
                   sinkVars, bridgeVars>>
    /\ primary' = err'
    /\ teardown' = teardown
    /\ UNCHANGED otherVars

\* The consumer, with the generator suspended at one of its yields:
\* __anext__() (after the partial frame the except block ends and the finally
\* block runs), aclose() (GeneratorExit is raised at the yield), athrow(), or
\* nothing more while it keeps the generator object.
CaptureAsyncConsumer ==
    /\ op = "capture_async" /\ pc \in {"yield", "yield_partial"}
    /\ \/ pc' = (IF pc = "yield" THEN "read" ELSE "fin") /\ err' = err
       \/ pc' = "fin" /\ err' = "GeneratorExit"
       \/ pc' = "fin" /\ err' = "ConsumerError"
       \/ pc' = "abandoned" /\ err' = err
    /\ UNCHANGED <<op, available, procVars, sinkVars, sourceVars, bridgeVars>>
    /\ primary' = err'
    /\ teardown' = teardown
    /\ UNCHANGED otherVars

\* The abandoned generator object is finalized, if the runtime ever does so:
\* the event loop's hook runs its aclose().
CaptureAsyncFinalize ==
    /\ op = "capture_async" /\ pc = "abandoned"
    /\ pc' = "fin"
    /\ err' = "GeneratorExit"
    /\ UNCHANGED <<op, available, procVars, sinkVars, sourceVars, bridgeVars>>
    /\ primary' = err'
    /\ teardown' = teardown
    /\ UNCHANGED otherVars

\* finally: process.stdout.close(); await process.wait()
\* An exception raised in the finally block replaces the one in flight.
CaptureAsyncFinally ==
    /\ op = "capture_async" /\ pc \in {"fin", "waiting"}
    /\ IF pc = "fin"
       THEN IF StreamReaderHasClose
            THEN /\ closed' = TRUE
                 /\ waitStarted' = TRUE
                 /\ log' = log \o <<"close", "wait">>
                 /\ pc' = "waiting"
                 /\ UNCHANGED <<waited, err, teardown>>
            ELSE /\ err' = "AttributeError"
                 /\ teardown' = "AttributeError"
                 /\ pc' = "raised"
                 /\ UNCHANGED <<closed, waitStarted, waited, log>>
       ELSE /\ child = "exited"
            /\ waited' = TRUE
            /\ pc' = IF err = NoErr THEN "done"
                     ELSE IF err = "GeneratorExit" THEN "closed" ELSE "raised"
            /\ err' = IF err = "GeneratorExit" THEN NoErr ELSE err
            /\ UNCHANGED <<closed, waitStarted, log, teardown>>
    /\ UNCHANGED <<op, available, child, primary, sinkVars, sourceVars, bridgeVars>>
    /\ UNCHANGED otherVars

\* The task iterating the generator is cancelled while the generator is
\* suspended in one of its awaits: CancelledError is raised there.
CaptureAsyncCancel ==
    /\ op = "capture_async" /\ pc \in {"spawn", "read", "waiting"}
    /\ err' = "CancelledError"
    /\ pc' = IF pc = "read" THEN "fin" ELSE "raised"
    /\ primary' = IF pc = "read" THEN "CancelledError" ELSE primary
    /\ teardown' = IF pc = "waiting" THEN "CancelledError" ELSE teardown
    /\ UNCHANGED <<op, available, procVars, sinkVars, sourceVars, bridgeVars>>
    /\ UNCHANGED otherVars

capture_async ==
    \/ CaptureAsyncWhich \/ CaptureAsyncSpawn \/ CaptureAsyncRead
    \/ CaptureAsyncConsumer \/ CaptureAsyncFinalize \/ CaptureAsyncFinally
    \/ CaptureAsyncCancel

\* ------------------------------------- AsyncCambAI.text_to_speech_stream
\* sync_gen = self.camb_ai.text_to_speech_stream(text, voice_id, language)
\* (the body of the async generator starts at the consumer's first __anext__)
TtsCall ==
    /\ op = "tts" /\ pc = "call"
    /\ invoked' = [called |-> TRUE, arg |-> <<>>]
    /\ pc' = "for"
    /\ UNCHANGED <<op, err, available, procVars, sinkVars, sourceVars,
                   sync_gen, sync_err, taken, delivered, sleeps, audio_chunks>>
    /\ UNCHANGED excVars
    /\ UNCHANGED otherVars

\* for chunk in sync_gen: the next item, the end of the loop, or the
\* exception the vendor's generator raises
TtsFor ==
    /\ op = "tts" /\ pc = "for"
    /\ IF taken < Len(sync_gen)
       THEN taken' = taken + 1 /\ pc' = "sleep" /\ err' = err
       ELSE /\ taken' = taken
            /\ pc' = IF sync_err = NoErr THEN "done" ELSE "raised"
            /\ err' = sync_err
    /\ UNCHANGED <<op, available, procVars, sinkVars, sourceVars,
                   sync_gen, sync_err, delivered, sleeps, audio_chunks, invoked>>
    /\ UNCHANGED excVars
    /\ UNCHANGED otherVars

\* TtsSleepYield without the yield: the loop suspends but hands nothing on.
TtsSleepNoYield ==
    /\ op = "tts" /\ pc = "sleep"
    /\ sleeps' = sleeps + 1
    /\ delivered' = delivered
    /\ pc' = "yield"
    /\ UNCHANGED <<op, err, available, procVars, sinkVars, sourceVars,
                   sync_gen, sync_err, taken, audio_chunks, invoked>>
    /\ UNCHANGED excVars
    /\ UNCHANGED otherVars

\* TtsSleepYield without the sleep: the item is yielded at once.
TtsYieldNoSleep ==
    /\ op = "tts" /\ pc = "sleep"
    /\ sleeps' = sleeps
    /\ delivered' = Append(delivered, sync_gen[taken])
    /\ pc' = "yield"
    /\ UNCHANGED <<op, err, available, procVars, sinkVars, sourceVars,
                   sync_gen, sync_err, taken, audio_chunks, invoked>>
    /\ UNCHANGED excVars
    /\ UNCHANGED otherVars

\* await asyncio.sleep(0); yield chunk
TtsSleepYield ==
    /\ op = "tts" /\ pc = "sleep"
    /\ sleeps' = sleeps + 1
    /\ delivered' = Append(delivered, sync_gen[taken])
    /\ pc' = "yield"
    /\ UNCHANGED <<op, err, available, procVars, sinkVars, sourceVars,
                   sync_gen, sync_err, taken, audio_chunks, invoked>>
    /\ UNCHANGED excVars
    /\ UNCHANGED otherVars

\* ------------------------------------- AsyncCambAI.speech_to_text_stream
\* SttCollect with audio_chunks.insert(0, chunk) for append: the list is
\* collected in reverse.
SttCollectPrepend ==
    /\ op = "stt" /\ pc = "call"
    /\ \/ /\ idx < Len(audio_stream)
          /\ idx' = idx + 1
          /\ audio_chunks' = <<audio_stream[idx + 1]>> \o audio_chunks
          /\ UNCHANGED <<pc, err>>
       \/ /\ idx = Len(audio_stream)
          /\ pc' = "invoke"
          /\ UNCHANGED <<idx, audio_chunks, err>>
       \/ /\ pc' = "raised"
          /\ err' = "IterError"
          /\ UNCHANGED <<idx, audio_chunks>>
    /\ UNCHANGED <<op, available, procVars, audio_stream, chunk, audio, written,
                   result, sourceVars, sync_gen, sync_err, taken, delivered, sleeps,
                   invoked>>
    /\ UNCHANGED excVars
    /\ UNCHANGED otherVars

\* audio_chunks = []; async for chunk in audio_stream:
\*     audio_chunks.append(chunk)
SttCollect ==
    /\ op = "stt" /\ pc = "call"
    /\ \/ /\ idx < Len(audio_stream)
          /\ idx' = idx + 1
          /\ audio_chunks' = Append(audio_chunks, audio_stream[idx + 1])
          /\ UNCHANGED <<pc, err>>
       \/ /\ idx = Len(audio_stream)
          /\ pc' = "invoke"
          /\ UNCHANGED <<idx, audio_chunks, err>>
       \/ /\ pc' = "raised"
          /\ err' = "IterError"
          /\ UNCHANGED <<idx, audio_chunks>>
    /\ UNCHANGED <<op, available, procVars, audio_stream, chunk, audio, written,
                   result, sourceVars, sync_gen, sync_err, taken, delivered, sleeps,
                   invoked>>
    /\ UNCHANGED excVars
    /\ UNCHANGED otherVars

\* sync_gen = self.camb_ai.speech_to_text_stream(sync_audio_gen(), ...)
\* where sync_audio_gen yields the elements of audio_chunks in order
SttInvoke ==
    /\ op = "stt" /\ pc = "invoke"
    /\ invoked' = [called |-> TRUE, arg |-> audio_chunks]
    /\ pc' = "for"
    /\ UNCHANGED <<op, err, available, procVars, sinkVars, sourceVars,
                   sync_gen, sync_err, taken, delivered, sleeps, audio_chunks>>
    /\ UNCHANGED excVars
    /\ UNCHANGED otherVars

\* SttFor with the vendor's exception swallowed (a bare except around the
\* loop): the async generator ends as if the source were exhausted.
SttForSwallow ==
    /\ op = "stt" /\ pc = "for"
    /\ IF taken < Len(sync_gen)
       THEN taken' = taken + 1 /\ pc' = "sleep" /\ err' = err
       ELSE /\ taken' = taken
            /\ pc' = "done"
            /\ err' = NoErr
    /\ UNCHANGED <<op, available, procVars, sinkVars, sourceVars,
                   sync_gen, sync_err, delivered, sleeps, audio_chunks, invoked>>
    /\ UNCHANGED excVars
    /\ UNCHANGED otherVars

\* for result in sync_gen: the next item, the end of the loop, or the
\* exception the vendor's generator raises
SttFor ==
    /\ op = "stt" /\ pc = "for"
    /\ IF taken < Len(sync_gen)
       THEN taken' = taken + 1 /\ pc' = "sleep" /\ err' = err
       ELSE /\ taken' = taken
            /\ pc' = IF sync_err = NoErr THEN "done" ELSE "raised"
            /\ err' = sync_err
    /\ UNCHANGED <<op, available, procVars, sinkVars, sourceVars,
                   sync_gen, sync_err, delivered, sleeps, audio_chunks, invoked>>
    /\ UNCHANGED excVars
    /\ UNCHANGED otherVars

\* await asyncio.sleep(0); yield result
SttSleepYield ==
    /\ op = "stt" /\ pc = "sleep"
    /\ sleeps' = sleeps + 1
    /\ delivered' = Append(delivered, sync_gen[taken])
    /\ pc' = "yield"
    /\ UNCHANGED <<op, err, available, procVars, sinkVars, sourceVars,
                   sync_gen, sync_err, taken, audio_chunks, invoked>>
    /\ UNCHANGED excVars
    /\ UNCHANGED otherVars

\* ----------------------------------------- the consumer of a bridge
\* With the async generator suspended at its yield: __anext__() resumes the
\* loop, aclose() ends the generator there.
BridgeConsumer ==
    /\ op \in BridgeOps /\ pc = "yield"
    /\ \/ pc' = "for"
       \/ pc' = "closed"
    /\ UNCHANGED <<op, err, available, procVars, sinkVars, sourceVars, bridgeVars>>
    /\ UNCHANGED excVars
    /\ UNCHANGED otherVars

\* The task iterating the bridge is cancelled while the generator is
\* suspended in an await (asyncio.sleep(0), or the input's __anext__):
\* CancelledError is raised there and leaves the generator.
BridgeCancel ==
    /\ \/ op \in BridgeOps /\ pc = "sleep"
       \/ op = "stt" /\ pc = "call"
    /\ err' = "CancelledError"
    /\ pc' = "raised"
    /\ UNCHANGED <<op, available, procVars, sinkVars, sourceVars, bridgeVars>>
    /\ UNCHANGED excVars
    /\ UNCHANGED otherVars

text_to_speech_stream == TtsCall \/ TtsFor \/ TtsSleepYield

speech_to_text_stream == SttCollect \/ SttInvoke \/ SttFor \/ SttSleepYield

Next ==
    \/ stream \/ stream_async \/ capture \/ capture_async
    \/ text_to_speech_stream \/ speech_to_text_stream
    \/ BridgeConsumer \/ BridgeCancel \/ ChildExit

Spec == Init /\ [][Next]_vars

\* ------------------------------------- the two variants on the same input
\* The cooperative variant of an operation
Cooperative(o) == IF o = "stream" THEN "stream_async" ELSE "capture_async"

\* A caller that has run the blocking variant to its normal end now calls the
\* cooperative variant with the same chunk sequence (for a capture: on a
\* child that writes the same output): what the first call wrote, returned
\* and yielded is kept, and the new call starts from nothing.
RunOtherVariant ==
    /\ ~first.set
    /\ op \in {"stream", "capture"} /\ pc = "done"
    /\ first' = [set |-> TRUE, written |-> written, result |-> result,
                 frames |-> frames, log |-> log]
    /\ op' = Cooperative(op)
    /\ pc' = "call"
    /\ err' = NoErr
    /\ child' = "none" /\ closed' = FALSE /\ waitStarted' = FALSE /\ waited' = FALSE
    /\ log' = <<>>
    /\ primary' = NoErr /\ teardown' = NoErr
    /\ idx' = 0 /\ chunk' = None /\ audio' = <<>> /\ written' = <<>> /\ result' = None
    /\ pos' = 0 /\ frames' = <<>>
    /\ UNCHANGED <<available, audio_stream, N, bridgeVars, tasks, procs>>

InitPair == Init /\ op \in {"stream", "capture"} /\ available

NextPair ==
    \/ stream \/ stream_async \/ capture \/ capture_async
    \/ ChildExit \/ RunOtherVariant

SpecPair == InitPair /\ [][NextPair]_vars

\* ------------------------------- two stream_async calls on one event loop
\* Two tasks of one event loop each run stream_async on an input of their own.
\* A task runs alone from one await to the next, so an action is the code
\* between two suspension points; between two actions of a task the other
\* task, or a child, may take any number of steps.
Calls == {1, 2}

\* the chunks call c's iterator produces carry the byte c - 1
ChunksOf(c) == {None, Bytes(<<c - 1>>)}

\* the frame of one call: its position and its local variables (process is
\* the index in procs of the child the local variable refers to, 0: unbound)
NewTask(input) ==
    [pc |-> "call", process |-> 0, audio_stream |-> input, idx |-> 0,
     chunk |-> None, audio |-> <<>>, err |-> NoErr, result |-> None]

\* a child process with its stdin pipe: the call that spawned it, the bytes
\* written to the pipe, the calls that wrote to it, closed it, waited on it
NewProc(c) ==
    [owner |-> c, stdin |-> <<>>, writers |-> {}, closers |-> {}, waiters |-> {},
     exited |-> FALSE]

InitTwo ==
    /\ op = "stream_async" /\ pc = "concurrent" /\ err = NoErr
    /\ available \in BOOLEAN
    /\ child = "none" /\ closed = FALSE /\ waitStarted = FALSE /\ waited = FALSE
    /\ log = <<>> /\ primary = NoErr /\ teardown = NoErr
    /\ audio_stream = <<>> /\ idx = 0 /\ chunk = None /\ audio = <<>>
    /\ written = <<>> /\ result = None
    /\ N = 0 /\ pos = 0 /\ frames = <<>>
    /\ sync_gen = <<>> /\ sync_err = NoErr /\ taken = 0 /\ delivered = <<>>
    /\ sleeps = 0 /\ audio_chunks = <<>> /\ invoked = NotInvoked
    /\ first = NoObs
    /\ procs = <<>>
    /\ tasks \in {[c \in Calls |-> NewTask(IF c = 1 THEN i1 ELSE i2)] :
                    i1 \in SeqUpTo(ChunksOf(1), MaxChunks),
                    i2 \in SeqUpTo(ChunksOf(2), MaxChunks)}

\* finally: if process.stdin: process.stdin.close(); await process.wait()
\* entered by call c with exception e in flight (NoErr: none), up to the await
FinallyTask(t, e) == [t EXCEPT !.pc = "waiting", !.err = e]
FinallyProc(q, c) == [q EXCEPT !.closers = @ \cup {c}, !.waiters = @ \cup {c}]

\* if shutil.which("gst-play-1.0") is None: raise ValueError(message);
\* then asyncio.create_subprocess_exec(...) is awaited
TaskCall(c) ==
    /\ tasks[c].pc = "call"
    /\ tasks' = [tasks EXCEPT ![c] =
                    IF available THEN [@ EXCEPT !.pc = "spawn"]
                    ELSE [@ EXCEPT !.pc = "raised", !.err = "ValueError"]]
    /\ UNCHANGED <<procs, first, callVars>>

\* TaskSpawn with the handle kept in a variable of the module instead of a
\* local one: the last spawn rebinds process for every call.
TaskSpawnShared(c) ==
    /\ tasks[c].pc = "spawn"
    /\ procs' = Append(procs, NewProc(c))
    /\ tasks' = [t \in Calls |->
                    IF t = c
                    THEN [tasks[t] EXCEPT !.process = Len(procs) + 1,
                                          !.audio = <<>>, !.pc = "anext"]
                    ELSE [tasks[t] EXCEPT !.process = Len(procs) + 1]]
    /\ UNCHANGED <<first, callVars>>

\* process = await asyncio.create_subprocess_exec(...) completes;
\* audio = b""; the loop asks the iterator for its first chunk
TaskSpawn(c) ==
    /\ tasks[c].pc = "spawn"
    /\ procs' = Append(procs, NewProc(c))
    /\ tasks' = [tasks EXCEPT ![c].process = Len(procs) + 1,
                              ![c].audio = <<>>, ![c].pc = "anext"]
    /\ UNCHANGED <<first, callVars>>

\* async for chunk in audio_stream: the iterator answers; a chunk that is
\* not None is written to process.stdin and the drain is awaited; None goes
\* round the loop; the end of the iterator, an exception of the iterator or
\* of the write enters the finally block
TaskAnext(c) ==
    /\ tasks[c].pc = "anext"
    /\ LET t == tasks[c]
           p == tasks[c].process
       IN \/ /\ t.idx < Len(t.audio_stream)
             /\ LET ch == t.audio_stream[t.idx + 1]
                    t1 == [t EXCEPT !.idx = @ + 1, !.chunk = ch]
                IN IF ch.isNone
                   THEN tasks' = [tasks EXCEPT ![c] = t1] /\ procs' = procs
                   ELSE \/ /\ procs' = [procs EXCEPT ![p].stdin = @ \o ch.data,
                                                     ![p].writers = @ \cup {c}]
                           /\ tasks' = [tasks EXCEPT ![c] = [t1 EXCEPT !.pc = "drain"]]
                        \/ /\ procs' = [procs EXCEPT ![p] = FinallyProc(@, c)]
                           /\ tasks' = [tasks EXCEPT ![c] = FinallyTask(t1, "WriteError")]
          \/ /\ t.idx = Len(t.audio_stream)
             /\ procs' = [procs EXCEPT ![p] = FinallyProc(@, c)]
             /\ tasks' = [tasks EXCEPT ![c] = FinallyTask(t, NoErr)]
          \/ /\ procs' = [procs EXCEPT ![p] = FinallyProc(@, c)]
             /\ tasks' = [tasks EXCEPT ![c] = FinallyTask(t, "IterError")]
    /\ UNCHANGED <<first, callVars>>

\* await process.stdin.drain() completes; audio += chunk; the loop asks for
\* the next chunk. A drain that raises enters the finally block.
TaskDrain(c) ==
    /\ tasks[c].pc = "drain"
    /\ LET t == tasks[c]
           p == tasks[c].process
       IN \/ /\ tasks' = [tasks EXCEPT ![c] = [t EXCEPT !.audio = @ \o t.chunk.data,
                                                        !.pc = "anext"]]
             /\ procs' = procs
          \/ /\ procs' = [procs EXCEPT ![p] = FinallyProc(@, c)]
             /\ tasks' = [tasks EXCEPT ![c] = FinallyTask(t, "ConnectionResetError")]
    /\ UNCHANGED <<first, callVars>>

\* await process.wait() completes once the child has exited; return audio,
\* or the exception in flight is raised again
TaskWait(c) ==
    /\ tasks[c].pc = "waiting"
    /\ procs[tasks[c].process].exited
    /\ tasks' = [tasks EXCEPT ![c] =
                    IF @.err = NoErr
                    THEN [@ EXCEPT !.pc = "done", !.result = Bytes(tasks[c].audio)]
                    ELSE [@ EXCEPT !.pc = "raised"]]
    /\ UNCHANGED <<procs, first, callVars>>

\* the task of call c is cancelled at one of its awaits
TaskCancel(c) ==
    /\ tasks[c].pc \in {"spawn", "anext", "drain", "waiting"}
    /\ LET t == tasks[c]
           p == tasks[c].process
       IN IF t.pc \in {"anext", "drain"}
          THEN /\ procs' = [procs EXCEPT ![p] = FinallyProc(@, c)]
               /\ tasks' = [tasks EXCEPT ![c] = FinallyTask(t, "CancelledError")]
          ELSE /\ procs' = procs
               /\ tasks' = [tasks EXCEPT ![c] = [t EXCEPT !.pc = "raised",
                                                          !.err = "CancelledError"]]
    /\ UNCHANGED <<first, callVars>>

\* the child p exits
ProcExit(p) ==
    /\ p \in 1..Len(procs)
    /\ ~procs[p].exited
    /\ procs' = [procs EXCEPT ![p].exited = TRUE]
    /\ UNCHANGED <<tasks, first, callVars>>

NextTwo ==
    \/ \E c \in Calls :
          \/ TaskCall(c) \/ TaskSpawn(c) \/ TaskAnext(c) \/ TaskDrain(c)
          \/ TaskWait(c) \/ TaskCancel(c)
    \/ \E p \in Calls : ProcExit(p)

SpecTwo == InitTwo /\ [][NextTwo]_vars

\* ------------------------------------------------------------ the claims
\* the call has finished: it returned, raised, or its generator was closed
Finished == pc \in {"done", "raised", "closed"}

\* s is a prefix of t
IsPrefix(s, t) == Len(s) <= Len(t) /\ s = SubSeq(t, 1, Len(s))

\* the position of the first event e in the log l (0: not in it)
RECURSIVE FirstAt(_, _)
FirstAt(l, e) ==
    IF l = <<>> THEN 0
    ELSE IF Head(l) = e THEN 1
         ELSE IF FirstAt(Tail(l), e) = 0 THEN 0 ELSE 1 + FirstAt(Tail(l), e)

RECURSIVE Concat(_)
\* the concatenation of the data of a sequence of chunks, none of them None
Concat(cs) == IF cs = <<>> THEN <<>> ELSE Head(cs).data \o Concat(Tail(cs))

RECURSIVE NonEmpty(_)
\* the chunks of cs that are neither None nor b"", in order
NonEmpty(cs) ==
    IF cs = <<>> THEN <<>>
    ELSE IF Head(cs).isNone \/ Head(cs).data = <<>> THEN NonEmpty(Tail(cs))
         ELSE <<Head(cs)>> \o NonEmpty(Tail(cs))

\* C1: a bridge iterated to completion has delivered exactly the items of
\* the vendor's sequence, in order, each once; at every moment before, what
\* it has delivered is a prefix of that sequence.
C1_BridgeDeliversExactlyS ==
    op \in BridgeOps =>
        /\ IsPrefix(delivered, sync_gen)
        /\ pc = "done" => delivered = sync_gen

C1_Witness ==
    /\ op \in BridgeOps /\ pc = "done"
    /\ Len(delivered) >= 2 /\ delivered[1] # delivered[2]

\* the loop of a sink has run to the end of its input without an exception
LoopCompleted ==
    /\ op \in SinkOps /\ primary = NoErr /\ idx = Len(audio_stream)
    /\ pc \in {"close", "fin_close", "wait", "fin_wait", "waiting", "return", "done"}

\* C2: once the loop of stream or stream_async has completed without error,
\* the accumulated bytes and the bytes written to the child's stdin are both
\* the concatenation, in order, of the chunks of the input that are neither
\* None nor empty, and these are the bytes the call returns.
C2_SinkReturnsConcatenation ==
    /\ LoopCompleted =>
          /\ audio = Concat(NonEmpty(audio_stream))
          /\ written = Concat(NonEmpty(audio_stream))
    /\ (op \in SinkOps /\ pc = "done") =>
          (LoopCompleted /\ result = Bytes(Concat(NonEmpty(audio_stream))))

C2_Witness ==
    /\ op \in SinkOps /\ pc = "done"
    /\ \E i \in 1..Len(audio_stream) :
          audio_stream[i].isNone \/ audio_stream[i].data = <<>>
    /\ Len(result.data) >= 1

\* C3: once stream() has spawned the child, it closes the pipe and waits on
\* the child before it returns or raises, on every exit path.
C3_StreamReleasesOnEveryExit ==
    (op = "stream" /\ Finished /\ child # "none") => (closed /\ waited)

C5_CaptureReleasesWhenConsumerIsThrough ==
    (op = "capture" /\ child # "none" /\ (Finished \/ pc = "abandoned")) =>
        (closed /\ waited)

\* C6: once capture_async() has spawned the child, its finally block has
\* closed the pipe and completed the wait on the child when the generator
\* has finished, on every exit path.
C6_CaptureAsyncReleasesOnEveryExit ==
    (op = "capture_async" /\ child # "none" /\ Finished) => (closed /\ waited)

\* C7: when the executable is not found, the operation raises the
\* availability error, spawns no child, creates and touches no pipe, and
\* consumes no chunk of the caller's input.
C7_MissingToolSpawnsNothing ==
    (op \in SinkOps \cup SourceOps /\ ~available) =>
        /\ child = "none" /\ log = <<>> /\ ~closed /\ ~waitStarted
        /\ idx = 0 /\ written = <<>> /\ pos = 0 /\ frames = <<>>
        /\ pc \in {"call", "raised"}
        /\ pc = "raised" => err = "ValueError"

C7_Witness ==
    /\ op = "stream" /\ ~available /\ pc = "raised"
    /\ Len(audio_stream) >= 1

\* the frames of an output of n bytes cut every f bytes: ceil(n/f) frames,
\* all of f bytes but the last
ExpectedFrames(n, f) ==
    [i \in 1..((n + f - 1) \div f) |-> Frame((i - 1) * f, Min(f, n - (i - 1) * f))]

\* C8: a capture or capture_async of a child output of N bytes, N not a
\* multiple of the frame size, iterated to its end with no failure in
\* between, has yielded ceil(N/F) frames, all of F bytes but the last of
\* N mod F bytes, and has stopped without raising.
C8_PartialFrameThenCleanStop ==
    (op \in SourceOps /\ N % FrameSize # 0 /\ pc \in {"done", "raised"}
       /\ child # "none" /\ primary = NoErr) =>
        /\ pc = "done" /\ err = NoErr
        /\ frames = ExpectedFrames(N, FrameSize)

\* C9: when the data-transfer loop of capture, stream_async or capture_async
\* failed with an error and the teardown failed too, the caller observes the
\* loop's error.
C9_PrimaryErrorWins ==
    (op \in {"capture", "stream_async", "capture_async"} /\ pc = "raised"
       /\ primary \notin {NoErr, "GeneratorExit"} /\ teardown # NoErr) =>
        err = primary

\* C10: a bridge never completes normally unless the source was exhausted
\* without raising, and then all k items were delivered; when the source
\* raises E after k items, the bridge has delivered exactly those k items
\* and fails with E itself (unless its task was cancelled first).
C10_BridgeTermination ==
    op \in BridgeOps =>
        /\ pc = "done" =>
              (sync_err = NoErr /\ err = NoErr /\ delivered = sync_gen)
        /\ (pc = "raised" /\ invoked.called /\ err # "CancelledError") =>
              (sync_err # NoErr /\ err = sync_err /\ delivered = sync_gen)

C10_Witness ==
    /\ op = "stt" /\ pc = "raised" /\ err = "ApiException"
    /\ Len(delivered) = 1
\* C11: a bridge suspends in asyncio.sleep(0) once for every item it takes
\* from the source, after taking it and before it yields it or asks the
\* source for the next one: whenever the loop is about to take an item, is
\* suspended at its yield or has ended on its own, there have been as many
\* suspensions as items taken, and as many as items delivered.
C11_OneSleepPerItem ==
    op \in BridgeOps =>
        /\ sleeps = Len(delivered)
        /\ pc \in {"for", "yield", "done", "closed"} => sleeps = taken
        /\ pc = "sleep" => taken = sleeps + 1
        /\ pc = "done" => sleeps = Len(sync_gen)

C11_Witness ==
    /\ op \in BridgeOps /\ pc = "for"
    /\ taken = 2 /\ sleeps = 2 /\ Len(delivered) = 2
\* C12: speech_to_text_stream calls the vendor's consumer, takes and yields
\* results only after the asynchronous input has been iterated to its end;
\* what the consumer is given is the input's chunks in their order; when the
\* input raises while being collected the consumer is never called and that
\* error is what the caller gets.
C12_CollectThenInvoke ==
    op = "stt" =>
        /\ audio_chunks = SubSeq(audio_stream, 1, idx)
        /\ invoked.called => (idx = Len(audio_stream) /\ invoked.arg = audio_stream)
        /\ ~invoked.called => (taken = 0 /\ delivered = <<>> /\ sleeps = 0)
        /\ "IterError" \in {err, primary} => (~invoked.called /\ pc = "raised" /\ err = "IterError")

C12_Witness ==
    /\ op = "stt" /\ invoked.called
    /\ Len(invoked.arg) = 2 /\ invoked.arg[1] # invoked.arg[2]
    /\ Len(delivered) >= 1
\* how many times the event e is in the log l
RECURSIVE Count(_, _)
Count(l, e) ==
    IF l = <<>> THEN 0 ELSE (IF Head(l) = e THEN 1 ELSE 0) + Count(Tail(l), e)

\* C13: in stream_async at most one write to the pipe is without a completed
\* drain at any moment, and whenever the loop asks the input for the next
\* chunk (or holds a chunk it has not yet written) every write so far has
\* had its drain complete.
C13_AtMostOneUndrainedWrite ==
    op = "stream_async" =>
        /\ Count(log, "write") - Count(log, "drain") \in {0, 1}
        /\ pc \in {"anext", "write", "append"} => Count(log, "write") = Count(log, "drain")
        /\ pc = "drain" => Count(log, "write") = Count(log, "drain") + 1

C13_Witness ==
    /\ op = "stream_async" /\ pc = "drain"
    /\ Count(log, "write") = 2 /\ Count(log, "drain") = 1
\* the events of a call's log are in lifecycle order: the spawn first, no
\* transfer after the close, the wait only after the close
LifecycleOrdered(l) ==
    /\ l # <<>> => l[1] = "spawn"
    /\ Count(l, "spawn") <= 1 /\ Count(l, "close") <= 1 /\ Count(l, "wait") <= 1
    /\ \A i \in 1..Len(l) :
          /\ l[i] \in {"read", "write", "flush", "drain"} =>
                (FirstAt(l, "close") = 0 \/ i < FirstAt(l, "close"))
          /\ l[i] = "wait" => (0 < FirstAt(l, "close") /\ FirstAt(l, "close") < i)

\* C14: every call of the four pipe operations that has spawned a child has
\* its lifecycle events in the order spawn, transfer, close, wait, and is
\* finished only once the pipe has been closed and the wait has completed.
C14_LifecycleOrderAndRelease ==
    (op \in SinkOps \cup SourceOps /\ child # "none") =>
        /\ LifecycleOrdered(log)
        /\ Finished => (closed /\ waited)
RECURSIVE NotNone(_)
\* the chunks of cs that are not None, in order
NotNone(cs) ==
    IF cs = <<>> THEN <<>>
    ELSE IF Head(cs).isNone THEN NotNone(Tail(cs))
         ELSE <<Head(cs)>> \o NotNone(Tail(cs))

\* the chunks a sink has taken from its input so far
Consumed == SubSeq(audio_stream, 1, idx)

\* flushes (stream) and drains (stream_async) completed so far
Flushes == Count(log, "flush") + Count(log, "drain")

\* a sink is inside its loop and nothing has failed
InLoop ==
    /\ op \in SinkOps /\ child # "none" /\ primary = NoErr
    /\ pc \in {"for", "anext", "write", "flush", "drain", "append"}

\* C15 as stated: at the head of the loop a sink has made one write and one
\* flush (drain) for every chunk taken so far that is neither None nor empty,
\* and none for the others.
C15_EmptyChunkCausesNoWrite ==
    (InLoop /\ pc \in {"for", "anext"}) =>
        /\ Count(log, "write") = Len(NonEmpty(Consumed))
        /\ Flushes = Len(NonEmpty(Consumed))

\* C15 as amended: every chunk that is not None, empty ones included, is
\* written, then flushed (drained), then appended, in that order; a None
\* chunk causes no write, no flush and no change of the accumulation.
C15_WriteFlushAppendPerChunk ==
    InLoop =>
        /\ pc \in {"for", "anext"} =>
              /\ Count(log, "write") = Len(NotNone(Consumed))
              /\ Flushes = Len(NotNone(Consumed))
              /\ written = Concat(NotNone(Consumed)) /\ audio = written
        /\ pc = "write" =>
              /\ ~chunk.isNone /\ chunk = audio_stream[idx]
              /\ Count(log, "write") = Len(NotNone(Consumed)) - 1
              /\ Flushes = Count(log, "write") /\ audio = written
        /\ pc \in {"flush", "drain"} =>
              /\ Count(log, "write") = Len(NotNone(Consumed))
              /\ Flushes = Count(log, "write") - 1
              /\ written = audio \o chunk.data
        /\ pc = "append" =>
              /\ Count(log, "write") = Len(NotNone(Consumed))
              /\ Flushes = Count(log, "write")
              /\ written = audio \o chunk.data

C15_Witness ==
    /\ InLoop /\ pc \in {"for", "anext"} /\ idx = 2
    /\ audio_stream[1].isNone /\ audio_stream[2] = Bytes(<<0, 1>>)
    /\ Count(log, "write") = 1 /\ audio = <<0, 1>>
\* the frames fs are, end to end and in order, the first n bytes of the
\* child's output
Covers(fs, n) ==
    /\ \A i \in 1..Len(fs) :
          fs[i].lo = (IF i = 1 THEN 0 ELSE fs[i - 1].lo + fs[i - 1].len)
    /\ n = (IF fs = <<>> THEN 0 ELSE fs[Len(fs)].lo + fs[Len(fs)].len)

\* C17: a capture or capture_async iterated to the end of a child output of
\* N bytes with no failure in between has yielded frames that are, end to
\* end, that output, none of them empty; when N is a multiple of the frame
\* size (0 included) they are N/F frames of F bytes each and the iteration
\* has ended without raising.
C17_WholeFramesThenCleanStop ==
    (op \in SourceOps /\ child # "none" /\ primary = NoErr /\ pc \in {"done", "raised"}) =>
        /\ Covers(frames, N)
        /\ \A i \in 1..Len(frames) : frames[i].len > 0
        /\ N % FrameSize = 0 =>
              /\ Len(frames) = N \div FrameSize
              /\ \A i \in 1..Len(frames) : frames[i].len = FrameSize
              /\ pc = "done" /\ err = NoErr
\* the log l has a close and, after it, a wait
CloseThenWait(l) == 0 < FirstAt(l, "close") /\ FirstAt(l, "close") < FirstAt(l, "wait")

ProcsOf(c) == {p \in 1..Len(procs) : procs[p].owner = c}

\* C16: with two stream_async calls interleaved at their awaits, each call
\* spawns at most one child; a child's pipe is written, closed and waited on
\* by the call that spawned it only, and holds a prefix of the bytes of that
\* call's own chunks; a call that returns returns the concatenation of its
\* own chunks.
C16_CallsTouchOnlyTheirOwnChild ==
    /\ \A c \in DOMAIN tasks :
          /\ Cardinality(ProcsOf(c)) <= 1
          /\ tasks[c].process # 0 => tasks[c].process \in ProcsOf(c)
          /\ tasks[c].pc = "done" =>
                tasks[c].result = Bytes(Concat(NotNone(tasks[c].audio_stream)))
    /\ \A p \in 1..Len(procs) :
          /\ procs[p].writers \subseteq {procs[p].owner}
          /\ procs[p].closers \subseteq {procs[p].owner}
          /\ procs[p].waiters \subseteq {procs[p].owner}
          /\ IsPrefix(procs[p].stdin,
                      Concat(NotNone(tasks[procs[p].owner].audio_stream)))

\* call 2 spawned first and is suspended in a drain with a chunk in its
\* pipe, while call 1 has already returned its two chunks
C16_Witness ==
    /\ Len(procs) = 2 /\ procs[1].owner = 2
    /\ tasks[1].pc = "done" /\ Len(tasks[1].result.data) = 2
    /\ tasks[2].pc = "drain" /\ Len(procs[1].stdin) >= 1
    /\ procs[2].closers = {1} /\ procs[2].waiters = {1}
\* nothing outside the operation has failed: no exception in its loop (of the
\* iterator, the pipe, the consumer or a cancellation) and no cancellation of
\* its finally block
FailureFree == primary = NoErr /\ teardown # "CancelledError"

\* C19: a call of stream, stream_async, capture or capture_async that has
\* spawned its child and in which nothing outside the operation has failed
\* cannot have finished while the child has not exited.
C19_NoFinishBeforeChildExit ==
    (op \in SinkOps \cup SourceOps /\ child # "none" /\ Finished /\ FailureFree)
        => child = "exited"
=============================================================================
